---------------------------- MODULE Spec2Model ----------------------------
(***************************************************************************)
(* A model of src/models/v1.py: the NRMS news recommender (NewsEncoder,    *)
(* UserEncoder, NRMS.forward and the Lightning step / epoch-end hooks).    *)
(*                                                                         *)
(* Tensors are nested sequences (a (B, L, E) tensor is a sequence of B     *)
(* rows, each a sequence of L vectors, each a sequence of E numbers) and   *)
(* the shape of a tensor is the tuple of the lengths.  Floating point      *)
(* numbers are fixed-point integers: the integer n stands for n / Scale,   *)
(* every product is rounded (towards minus infinity) to that precision.    *)
(* torch's exp, tanh and log are replaced by rational functions with the   *)
(* same sign, monotonicity and range (FExp, FTanh, FLog); everything else  *)
(* (projections, masking, softmax normalisation, weighted sums, reshapes,  *)
(* the order of the checks and of the side effects) is the code's.         *)
(* Dropout is off (evaluation mode).                                       *)
(***************************************************************************)
EXTENDS Integers, Sequences, FiniteSets, TLC

VARIABLES
    training_step_outputs,    \* NRMS.training_step_outputs   (v1.py:265)
    validating_step_outputs,  \* NRMS.validating_step_outputs (v1.py:266)
    testing_step_outputs,     \* NRMS.testing_step_outputs    (v1.py:267)
    history,                  \* the hook calls that completed, oldest first
    outcome,                  \* the last hook call and the exception it raised
    logged,                   \* the self.log calls of the last hook call
    viz,                      \* the wandb.log calls of the last hook call
    call,                     \* the last encoder / forward call and its outcome
    twin                      \* a second call, made on a variation of call's input

vars == <<training_step_outputs, validating_step_outputs, testing_step_outputs,
          history, outcome, logged, viz, call, twin>>

----------------------------------------------------------------------------
(* Bounds of the model *)

Scale == 64         \* fixed-point precision: n stands for n / Scale
MaxLen == 3         \* longest token sequence (seq_length)
MaxTitles == 2      \* most articles per user (titles)
MaxUsers == 2       \* most users in a batch
NumSeeds == 2       \* number of sample contents per shape
MaxEvents == 4      \* most completed hook calls in one run
MaxBatchIdx == 1    \* largest batch_idx passed to a step

----------------------------------------------------------------------------
(* Fixed-point arithmetic *)

Abs(n) == IF n < 0 THEN -n ELSE n

Max2(a, b) == IF a >= b THEN a ELSE b

\* a * b of two fixed-point numbers
FMul(a, b) == (a * b) \div Scale

\* torch.exp / the exponential inside softmax: positive, strictly increasing,
\* FExp(0) = 1.  Never rounds to 0 (torch's softmax subtracts the maximum).
FExp(r) == IF r >= 0 THEN Scale + r ELSE Max2(1, (Scale * Scale) \div (Scale - r))

\* nn.Tanh: odd, increasing, in (-1, 1)
FTanh(r) == (r * Scale) \div (Scale + Abs(r))

\* The sequence f as a tuple whose elements are computed once (TLC would
\* otherwise recompute an element of [i \in 1..n |-> e] at every use).
Tensor(f) == f \o <<>>

\* F applied to the value v: LET name == v IN F(name), v computed once
With(v, F(_)) == F(v)

RECURSIVE SumSeq(_)
SumSeq(s) == IF s = <<>> THEN 0 ELSE s[1] + SumSeq(Tail(s))

\* the inner product of two vectors
Dot(a, b) == SumSeq([i \in 1..Len(a) |-> FMul(a[i], b[i])])

\* nn.Softmax over a sequence of scores; keep[j] = FALSE gives position j the
\* score -inf, that is the weight 0.
MaskedSoftmax(scores, keep) ==
    LET e == Tensor([j \in 1..Len(scores) |-> IF keep[j] THEN FExp(scores[j]) ELSE 0])
        z == SumSeq(e)
    IN  Tensor([j \in 1..Len(scores) |-> (e[j] * Scale) \div z])

Softmax(scores) == MaskedSoftmax(scores, [j \in 1..Len(scores) |-> TRUE])

\* nn.Linear: W is a sequence of rows (one per output), b the bias
Linear(W, b, v) == Tensor([o \in 1..Len(W) |-> Dot(W[o], v) + b[o]])

----------------------------------------------------------------------------
(* Optional arguments: a Python argument that may be None *)

None == <<>>

Some(t) == <<t>>

IsNone(o) == o = None

Val(o) == o[1]

\* tensor.shape of a 2-D and of a 3-D tensor
Shape2(t) == <<Len(t), Len(t[1])>>

Shape3(t) == <<Len(t), Len(t[1]), Len(t[1][1])>>

----------------------------------------------------------------------------
(* Hyperparameters and parameters.  The model is NRMS(embed_dim = 1,       *)
(* encoder_dim = 2) with attention heads of dimension 1; the trainable     *)
(* weights are fixed to one sample, the same in every call.                *)

embed_dim == 1

encoder_dim == 2

\* nn.MultiheadAttention: in_proj (query, key, value) and out_proj weights;
\* the biases are 0, as torch initialises them.
MhaW(n) == [o \in 1..n |-> [i \in 1..n |-> IF o = i THEN Scale ELSE 0]]

MhaB(n) == [o \in 1..n |-> 0]

\* self.linear = nn.Linear(embed_dim, output_dim)
LinearW(out, in) ==
    [o \in 1..out |-> [i \in 1..in |-> IF (o + i) % 2 = 0 THEN Scale ELSE -(Scale \div 2)]]

LinearB(out) == [o \in 1..out |-> (o - 1) * (Scale \div 4)]

\* AdditiveAttention.proj = nn.Linear(embed_dim, output_dim, bias=True)
ProjW(out, in) ==
    [o \in 1..out |-> [i \in 1..in |-> IF o = i THEN Scale ELSE Scale \div 2]]

ProjB(out) == [o \in 1..out |-> -(Scale \div 4)]

\* AdditiveAttention.proj_v = nn.Linear(output_dim, 1, bias=False)
ProjV(out) == <<[o \in 1..out |-> IF o % 2 = 1 THEN Scale ELSE -Scale]>>

----------------------------------------------------------------------------
(* nn.MultiheadAttention(x, x, x, key_padding_mask) on one row of the      *)
(* batch: xr is (L, E), keep[j] = FALSE for a padded key j.                *)

MhaRow(xr, keep) ==
    LET L == Len(xr)
        E == Len(xr[1])
        q == Tensor([i \in 1..L |-> Linear(MhaW(E), MhaB(E), xr[i])])
        k == Tensor([j \in 1..L |-> Linear(MhaW(E), MhaB(E), xr[j])])
        v == Tensor([j \in 1..L |-> Linear(MhaW(E), MhaB(E), xr[j])])
        w == Tensor([h \in 1..E |-> Tensor([i \in 1..L |->
                 MaskedSoftmax([j \in 1..L |-> FMul(q[i][h], k[j][h])], keep)])])
        heads == Tensor([i \in 1..L |-> Tensor([h \in 1..E |->
                     SumSeq([j \in 1..L |-> FMul(w[h][i][j], v[j][h])])])])
    IN  [context |-> Tensor([i \in 1..L |-> Linear(MhaW(E), MhaB(E), heads[i])]),
         weights |-> Tensor([i \in 1..L |-> Tensor([j \in 1..L |->
                         SumSeq([h \in 1..E |-> w[h][i][j]]) \div E])])]

\* the whole batch; kpm is None or a (B, L) tensor of booleans, TRUE = padding
MultiheadAttention(x, kpm) ==
    LET rows == Tensor([b \in 1..Len(x) |->
                    MhaRow(x[b], Tensor([j \in 1..Len(x[b]) |->
                                     IF IsNone(kpm) THEN TRUE ELSE ~Val(kpm)[b][j]]))])
    IN  [context |-> Tensor([b \in 1..Len(x) |-> rows[b].context]),
         weights |-> Tensor([b \in 1..Len(x) |-> rows[b].weights])]

----------------------------------------------------------------------------
(* AdditiveAttention.forward(x): x is (B, L, E); returns (B, L)            *)

AdditiveAttention(x, output_dim) ==
    Tensor([b \in 1..Len(x) |->
        LET E == Len(x[b][1])
            x_proj == Tensor([l \in 1..Len(x[b]) |->
                          LET p == Linear(ProjW(output_dim, E), ProjB(output_dim), x[b][l])
                          IN  Tensor([o \in 1..output_dim |-> FTanh(p[o])])])
            attn_scores == Tensor([l \in 1..Len(x[b]) |->
                               Linear(ProjV(output_dim), <<0>>, x_proj[l])[1]])
        IN  Softmax(attn_scores)])

\* self.tanh(self.linear(context)): (B, L, E) to (B, L, output_dim)
TransformedContext(context, output_dim) ==
    Tensor([b \in 1..Len(context) |-> Tensor([l \in 1..Len(context[b]) |->
        LET t == Linear(LinearW(output_dim, Len(context[b][l])), LinearB(output_dim),
                        context[b][l])
        IN  Tensor([o \in 1..output_dim |-> FTanh(t[o])])])])

\* torch.sum(additive_weights.unsqueeze(-1) * transformed_context, dim=1)
WeightedSum(additive_weights, transformed_context) ==
    Tensor([b \in 1..Len(transformed_context) |->
        Tensor([o \in 1..Len(transformed_context[b][1]) |->
            SumSeq([l \in 1..Len(transformed_context[b]) |->
                FMul(additive_weights[b][l], transformed_context[b][l][o])])])])

----------------------------------------------------------------------------
(* NewsEncoder.forward(x, key_padding_mask, softmax_padding_mask)          *)
(* x is (B, L, embed_dim); the masks are None or Some of a 2-D tensor.     *)
(* The result records the exception raised ("ok" when none), the three     *)
(* returned tensors and the layers that ran.                               *)

Raised(e, ran) ==
    [err |-> e, out |-> <<>>, context_weights |-> <<>>, additive_weights |-> <<>>,
     ran |-> ran]

\* a mutant of NewsEncoderForward: the shape of the mask is asserted after
\* the self-attention ran
NewsEncoderForward_LateAssert(x, key_padding_mask, softmax_padding_mask) ==
    IF IsNone(key_padding_mask)
    THEN Raised("AttributeError", <<"multi_head_attention">>)
    ELSE IF Shape2(Val(key_padding_mask)) # <<Len(x), Len(x[1])>>
    THEN Raised("AssertionError", <<"multi_head_attention">>)
    ELSE
    With(MultiheadAttention(x, key_padding_mask), LAMBDA mha :
    With(TransformedContext(mha.context, encoder_dim), LAMBDA transformed_context :
    With(AdditiveAttention(mha.context, encoder_dim), LAMBDA softmax_weights :
    With(IF IsNone(softmax_padding_mask) THEN softmax_weights
         ELSE Tensor([b \in 1..Len(x) |-> Tensor([l \in 1..Len(x[b]) |->
                  softmax_weights[b][l] * Val(softmax_padding_mask)[b][l]])]),
         LAMBDA additive_weights :
        [err |-> "ok",
         out |-> WeightedSum(additive_weights, transformed_context),
         context_weights |-> mha.weights,
         additive_weights |-> additive_weights,
         ran |-> <<"multi_head_attention", "linear", "additive_attention">>]))))

\* a mutant of NewsEncoderForward: the masked weights are renormalised to
\* sum to 1
NewsEncoderForward_Renormalising(x, key_padding_mask, softmax_padding_mask) ==
    IF IsNone(key_padding_mask)
    THEN Raised("AttributeError", <<>>)
    ELSE IF Shape2(Val(key_padding_mask)) # <<Len(x), Len(x[1])>>
    THEN Raised("AssertionError", <<>>)
    ELSE
    With(MultiheadAttention(x, key_padding_mask), LAMBDA mha :
    With(TransformedContext(mha.context, encoder_dim), LAMBDA transformed_context :
    With(AdditiveAttention(mha.context, encoder_dim), LAMBDA softmax_weights :
    With(IF IsNone(softmax_padding_mask) THEN softmax_weights
         ELSE Tensor([b \in 1..Len(x) |->
                  With(Tensor([l \in 1..Len(x[b]) |->
                           softmax_weights[b][l] * Val(softmax_padding_mask)[b][l]]),
                       LAMBDA masked :
                       Tensor([l \in 1..Len(x[b]) |->
                           (masked[l] * Scale) \div Max2(SumSeq(masked), 1)]))]),
         LAMBDA additive_weights :
        [err |-> "ok",
         out |-> WeightedSum(additive_weights, transformed_context),
         context_weights |-> mha.weights,
         additive_weights |-> additive_weights,
         ran |-> <<"multi_head_attention", "linear", "additive_attention">>]))))

NewsEncoderForward(x, key_padding_mask, softmax_padding_mask) ==
    IF IsNone(key_padding_mask)
    THEN Raised("AttributeError", <<>>)               \* None has no .shape
    ELSE IF Shape2(Val(key_padding_mask)) # <<Len(x), Len(x[1])>>
    THEN Raised("AssertionError", <<>>)
    ELSE
    With(MultiheadAttention(x, key_padding_mask), LAMBDA mha :
    With(TransformedContext(mha.context, encoder_dim), LAMBDA transformed_context :
    With(AdditiveAttention(mha.context, encoder_dim), LAMBDA softmax_weights :
    With(IF IsNone(softmax_padding_mask) THEN softmax_weights
         ELSE Tensor([b \in 1..Len(x) |-> Tensor([l \in 1..Len(x[b]) |->
                  softmax_weights[b][l] * Val(softmax_padding_mask)[b][l]])]),
         LAMBDA additive_weights :
        [err |-> "ok",
         out |-> WeightedSum(additive_weights, transformed_context),
         context_weights |-> mha.weights,
         additive_weights |-> additive_weights,
         ran |-> <<"multi_head_attention", "linear", "additive_attention">>]))))

----------------------------------------------------------------------------
(* UserEncoder.forward(x): x is (users, titles, encoder_dim); no mask      *)

\* a mutant of UserEncoderForward: the articles are not pooled, a user's
\* vector has one component per article
UserEncoderForward_Unpooled(x) ==
    Tensor([u \in 1..Len(x) |-> Tensor([a \in 1..Len(x[u]) |-> x[u][a][1]])])

UserEncoderForward(x) ==
    With(MultiheadAttention(x, None), LAMBDA mha :
    With(TransformedContext(mha.context, Len(x[1][1])), LAMBDA transformed_context :
    With(AdditiveAttention(mha.context, Len(x[1][1])), LAMBDA additive_weights :
        WeightedSum(additive_weights, transformed_context))))

----------------------------------------------------------------------------
(* Reshapes                                                                *)

RECURSIVE Flat(_)
\* the elements of a tensor of sequences, row after row
Flat(t) == IF t = <<>> THEN <<>> ELSE t[1] \o Flat(Tail(t))

\* t.view(n, l) of a (users, titles, l') tensor; the caller checks numel
View2(t, n, l) ==
    LET f == Flat(Flat(t))
    IN  Tensor([r \in 1..n |-> Tensor([c \in 1..l |-> f[(r - 1) * l + c]])])

\* t.view(users, titles, ...) of a tensor of users * titles rows
View3(t, users, titles) ==
    Tensor([u \in 1..users |-> Tensor([a \in 1..titles |-> t[(u - 1) * titles + a]])])

Numel3(t) == Len(t) * Len(t[1]) * Len(t[1][1])

----------------------------------------------------------------------------
(* DocEncoder.forward: the pretrained language encoder, an external        *)
(* collaborator.  It is a function of a row's token ids and attention      *)
(* mask: each token's embedding depends on the token and on the attended   *)
(* tokens of its row.                                                      *)

DocEncoderForward(input_ids, attention_mask) ==
    Tensor([n \in 1..Len(input_ids) |->
        LET ctx == SumSeq([j \in 1..Len(input_ids[n]) |->
                       attention_mask[n][j] * input_ids[n][j]])
        IN  Tensor([l \in 1..Len(input_ids[n]) |->
                Tensor([e \in 1..embed_dim |->
                    Scale * input_ids[n][l] - (Scale \div 4) * ctx])])])

----------------------------------------------------------------------------
(* NRMS.forward_doc_encoder, forward_news_encoder, forward_user_encoder    *)
(* The arguments are 3-D tensors (users, titles, seq_length); an optional  *)
(* one is None or Some.  A result records the exception raised ("ok" when  *)
(* none) and the encoders invoked, in order.                               *)

Failed(e, ran) == [err |-> e, ran |-> ran]

forward_doc_encoder(input_ids, attention_mask) ==
    LET users == Len(input_ids)
        titles == Len(input_ids[1])
        seq_length == Len(input_ids[1][1])
    IN  IF Numel3(attention_mask) # users * titles * seq_length
        THEN Failed("RuntimeError", <<>>)             \* attention_mask.view
        ELSE [err |-> "ok", ran |-> <<"doc_encoder">>,
              embeddings |->
                  View3(DocEncoderForward(View2(input_ids, users * titles, seq_length),
                                          View2(attention_mask, users * titles, seq_length)),
                        users, titles)]

forward_news_encoder(input_ids, attention_mask, key_padding_mask, softmax_padding_mask) ==
    With(forward_doc_encoder(input_ids, attention_mask), LAMBDA doc :
    IF doc.err # "ok" THEN doc
    ELSE
    LET users == Len(doc.embeddings)
        titles == Len(doc.embeddings[1])
        seq_length == Len(doc.embeddings[1][1])
    IN  IF Numel3(key_padding_mask) # users * titles * seq_length
        THEN Failed("RuntimeError", doc.ran)          \* key_padding_mask.view
        ELSE IF /\ ~IsNone(softmax_padding_mask)
                /\ Numel3(Val(softmax_padding_mask)) # users * titles * seq_length
        THEN Failed("RuntimeError", doc.ran)          \* softmax_padding_mask.view
        ELSE
        With(NewsEncoderForward(
                 Flat(doc.embeddings),
                 Some(View2(key_padding_mask, users * titles, seq_length)),
                 IF IsNone(softmax_padding_mask) THEN None
                 ELSE Some(View2(Val(softmax_padding_mask), users * titles, seq_length))),
             LAMBDA enc :
             IF enc.err # "ok" THEN Failed(enc.err, doc.ran \o <<"news_encoder">>)
             ELSE [err |-> "ok", ran |-> doc.ran \o <<"news_encoder">>,
                   news_vectors |-> View3(enc.out, users, titles),
                   c_weights |-> enc.context_weights,
                   a_weights |-> enc.additive_weights]))

\* a mutant of forward_user_encoder: the softmax-padding mask is not passed on
forward_user_encoder_Unmasked(input_ids, attention_mask, key_padding_mask, softmax_padding_mask) ==
    With(forward_news_encoder(input_ids, attention_mask, key_padding_mask, None),
         LAMBDA news :
    IF news.err # "ok" THEN news
    ELSE
    With(UserEncoderForward(news.news_vectors), LAMBDA user_vector :
    LET users == Len(news.news_vectors)
        dim == Len(news.news_vectors[1][1])
        ran == news.ran \o <<"user_encoder">>
    IN  IF <<Len(user_vector), Len(user_vector[1])>> # <<users, dim>>
        THEN Failed("AssertionError", ran)
        ELSE [err |-> "ok", ran |-> ran, user_vector |-> user_vector]))

forward_user_encoder(input_ids, attention_mask, key_padding_mask, softmax_padding_mask) ==
    With(forward_news_encoder(input_ids, attention_mask, key_padding_mask,
                              softmax_padding_mask), LAMBDA news :
    IF news.err # "ok" THEN news
    ELSE
    With(UserEncoderForward(news.news_vectors), LAMBDA user_vector :
    LET users == Len(news.news_vectors)
        dim == Len(news.news_vectors[1][1])
        ran == news.ran \o <<"user_encoder">>
    IN  IF <<Len(user_vector), Len(user_vector[1])>> # <<users, dim>>
        THEN Failed("AssertionError", ran)
        ELSE [err |-> "ok", ran |-> ran, user_vector |-> user_vector]))

----------------------------------------------------------------------------
(* NRMS.forward                                                            *)

\* a mutant of Bmm: every user's candidates are scored against the first
\* user's vector
Bmm_FirstUser(news_vectors, user_vectors) ==
    Tensor([u \in 1..Len(news_vectors) |->
        Tensor([k \in 1..Len(news_vectors[u]) |-> Dot(news_vectors[u][k], user_vectors[1])])])

\* torch.bmm(news_vectors, user_vectors.unsqueeze(2)).squeeze(2)
Bmm(news_vectors, user_vectors) ==
    Tensor([u \in 1..Len(news_vectors) |->
        Tensor([k \in 1..Len(news_vectors[u]) |-> Dot(news_vectors[u][k], user_vectors[u])])])

\* the arguments of forward, in the order of its checks
Required == <<"clicked_ids", "clicked_attention_mask", "clicked_key_padding_mask",
              "labeled_ids", "labeled_attention_mask", "labeled_key_padding_mask">>

\* a mutant of FirstAbsent: the first name checked is reported whichever
\* argument is absent
FirstAbsent_FirstName(names, args) ==
    IF \E i \in 1..Len(names) : IsNone(args[names[i]]) THEN names[1] ELSE ""

RECURSIVE FirstAbsent(_, _)
\* the first name of the sequence whose argument is None, "" if there is none
FirstAbsent(names, args) ==
    IF names = <<>> THEN ""
    ELSE IF IsNone(args[names[1]]) THEN names[1]
    ELSE FirstAbsent(Tail(names), args)

\* args maps each of the seven argument names to None or Some(tensor)
forward(args) ==
    IF FirstAbsent(Required, args) # ""
    THEN [err |-> "ValueError", msg |-> FirstAbsent(Required, args) \o " must be provided.",
          ran |-> <<>>]
    ELSE
    With(forward_news_encoder(Val(args.labeled_ids), Val(args.labeled_attention_mask),
                              Val(args.labeled_key_padding_mask), None), LAMBDA labeled :
    IF labeled.err # "ok" THEN [err |-> labeled.err, msg |-> "", ran |-> labeled.ran]
    ELSE
    With(forward_user_encoder(Val(args.clicked_ids), Val(args.clicked_attention_mask),
                              Val(args.clicked_key_padding_mask),
                              args.clicked_softmax_padding_mask), LAMBDA clicked :
    IF clicked.err # "ok"
    THEN [err |-> clicked.err, msg |-> "", ran |-> labeled.ran \o clicked.ran]
    ELSE IF Len(labeled.news_vectors) # Len(clicked.user_vector)
    THEN [err |-> "RuntimeError", msg |-> "", ran |-> labeled.ran \o clicked.ran] \* bmm
    ELSE [err |-> "ok", msg |-> "", ran |-> labeled.ran \o clicked.ran,
          scores |-> Bmm(labeled.news_vectors, clicked.user_vector),
          c_weights |-> labeled.c_weights,
          a_weights |-> labeled.a_weights]))

----------------------------------------------------------------------------
(* NRMS.forward_and_compute_loss(batch)                                    *)
(* batch is [clicked_tokens, labeled_tokens, labels]; the two token        *)
(* dictionaries map some of the keys to None or Some(tensor), and labels   *)
(* is a 2-D tensor of class indices (0 is the first candidate).            *)

\* the dictionary lookups, in the order the call evaluates them
Lookups == <<<<"clicked_tokens", "input_ids">>, <<"clicked_tokens", "attention_mask">>,
             <<"clicked_tokens", "key_padding_mask">>,
             <<"clicked_tokens", "softmax_padding_mask">>,
             <<"labeled_tokens", "input_ids">>, <<"labeled_tokens", "attention_mask">>,
             <<"labeled_tokens", "key_padding_mask">>>>

RECURSIVE FirstMissing(_, _)
\* the first lookup whose key the dictionary lacks, <<>> if there is none
FirstMissing(lookups, batch) ==
    IF lookups = <<>> THEN <<>>
    ELSE IF lookups[1][2] \notin DOMAIN batch[lookups[1][1]] THEN lookups[1]
    ELSE FirstMissing(Tail(lookups), batch)

\* -log(p) of a probability p, the inverse of FExp on (0, 1]
FNegLog(p) == (Scale * Scale) \div Max2(p, 1) - Scale

\* nn.CrossEntropyLoss()(scores, labels): the mean over the users of
\* -log softmax(scores[u])[labels[u]]
CrossEntropyLoss(scores, labels) ==
    SumSeq([u \in 1..Len(scores) |-> FNegLog(Softmax(scores[u])[labels[u] + 1])])
        \div Len(scores)

forward_and_compute_loss(batch) ==
    IF FirstMissing(Lookups, batch) # <<>>
    THEN [err |-> "KeyError", msg |-> FirstMissing(Lookups, batch)[2], ran |-> <<>>]
    ELSE
    With(forward([clicked_ids |-> batch.clicked_tokens.input_ids,
                  clicked_attention_mask |-> batch.clicked_tokens.attention_mask,
                  clicked_key_padding_mask |-> batch.clicked_tokens.key_padding_mask,
                  clicked_softmax_padding_mask |->
                      batch.clicked_tokens.softmax_padding_mask,
                  labeled_ids |-> batch.labeled_tokens.input_ids,
                  labeled_attention_mask |-> batch.labeled_tokens.attention_mask,
                  labeled_key_padding_mask |-> batch.labeled_tokens.key_padding_mask]),
         LAMBDA f :
         IF f.err # "ok" THEN f
         ELSE IF Shape2(batch.labels) # <<Len(f.scores), 1>>
         THEN [err |-> "AssertionError", msg |-> "", ran |-> f.ran]
         ELSE [err |-> "ok", msg |-> "", ran |-> f.ran,
               loss |-> CrossEntropyLoss(f.scores,
                            [u \in 1..Len(batch.labels) |-> batch.labels[u][1]]),
               c_weights |-> f.c_weights,
               a_weights |-> f.a_weights])

----------------------------------------------------------------------------
(* Input batches.  A token group of shape (U, A, L) is built from a seed:  *)
(* every article has a real length between 1 and L and is padded with the  *)
(* token 0 behind it; the attention mask is 1 on the real tokens, the      *)
(* key-padding mask is TRUE on the padding, and the softmax-padding mask   *)
(* is 0 on every position of the article number pad of each user (pad = 0: *)
(* no article is padded).                                                  *)

RealLen(seed, u, a, L) == 1 + ((seed + u + a) % L)

TokenAt(seed, u, a, l) == 1 + ((seed + 2 * u + a * l) % 3)

Tokens(U, A, L, seed, pad) ==
    [input_ids |->
         [u \in 1..U |-> [a \in 1..A |-> [l \in 1..L |->
             IF l <= RealLen(seed, u, a, L) THEN TokenAt(seed, u, a, l) ELSE 0]]],
     attention_mask |->
         [u \in 1..U |-> [a \in 1..A |-> [l \in 1..L |->
             IF l <= RealLen(seed, u, a, L) THEN 1 ELSE 0]]],
     key_padding_mask |->
         [u \in 1..U |-> [a \in 1..A |-> [l \in 1..L |-> l > RealLen(seed, u, a, L)]]],
     softmax_padding_mask |->
         [u \in 1..U |-> [a \in 1..A |-> [l \in 1..L |-> IF a = pad THEN 0 ELSE 1]]]]

\* a dictionary of Some(tensor) values from a token group
Dict(t) == [k \in DOMAIN t |-> Some(t[k])]

----------------------------------------------------------------------------
(* Calls of NewsEncoder.forward on one-row batches                         *)

NoCall == [op |-> "none"]

\* the values a component of an input embedding takes: -1.0 and 2.0
XVals == {-Scale, 2 * Scale}

\* the (1, L, embed_dim) embeddings
XInputs ==
    UNION {{<<row>> : row \in [1..L -> [1..embed_dim -> XVals]]} : L \in 1..MaxLen}

\* the boolean (B, L) tensors
BoolMasks(B, L) == [1..B -> [1..L -> BOOLEAN]]

\* The key-padding masks tried with x: None, every mask of x's shape that
\* leaves a key to attend to in each row, and one mask of every other shape.
KpmInputs(x) ==
    {None}
    \cup {Some(m) : m \in {k \in BoolMasks(Len(x), Len(x[1])) :
                              \A b \in 1..Len(k) : \E j \in 1..Len(k[b]) : ~k[b][j]}}
    \cup {Some([b \in 1..B |-> [j \in 1..L |-> FALSE]]) :
             B \in 1..2, L \in 1..MaxLen}

\* The softmax-padding masks tried with x: None and every 0/1 mask of its shape
SpmInputs(x) ==
    {None} \cup {Some(m) : m \in [1..Len(x) -> [1..Len(x[1]) -> {0, 1}]]}

InitIdle ==
    /\ training_step_outputs = <<>>
    /\ validating_step_outputs = <<>>
    /\ testing_step_outputs = <<>>
    /\ history = <<>>
    /\ outcome = [op |-> "none", err |-> "ok"]
    /\ logged = <<>>
    /\ viz = <<>>
    /\ call = NoCall
    /\ twin = NoCall

hookVars == <<training_step_outputs, validating_step_outputs, testing_step_outputs,
              history, outcome, logged, viz>>

NewsEncoderCall ==
    /\ call.op = "none"
    /\ \E x \in XInputs :
       \E kpm \in KpmInputs(x), spm \in SpmInputs(x) :
          call' = [op |-> "NewsEncoder.forward", x |-> x,
                   key_padding_mask |-> kpm, softmax_padding_mask |-> spm,
                   res |-> NewsEncoderForward(x, kpm, spm)]
    /\ UNCHANGED <<hookVars, twin>>

\* a second call that differs from the first only in the input vector at
\* position p of row 1
NewsEncoderPerturbed ==
    /\ call.op = "NewsEncoder.forward"
    /\ twin.op = "none"
    /\ \E p \in 1..Len(call.x[1]), v \in [1..embed_dim -> XVals] :
          /\ v # call.x[1][p]
          /\ LET x2 == [call.x EXCEPT ![1][p] = v]
             IN  twin' = [op |-> "NewsEncoder.forward", kind |-> "perturbed", p |-> p,
                          x |-> x2,
                          key_padding_mask |-> call.key_padding_mask,
                          softmax_padding_mask |-> call.softmax_padding_mask,
                          res |-> NewsEncoderForward(x2, call.key_padding_mask,
                                                     call.softmax_padding_mask)]
    /\ UNCHANGED <<hookVars, call>>

\* a second call that differs from the first only in passing no
\* softmax-padding mask
NewsEncoderUnmasked ==
    /\ call.op = "NewsEncoder.forward"
    /\ twin.op = "none"
    /\ ~IsNone(call.softmax_padding_mask)
    /\ twin' = [op |-> "NewsEncoder.forward", kind |-> "unmasked", p |-> 0,
                x |-> call.x,
                key_padding_mask |-> call.key_padding_mask,
                softmax_padding_mask |-> None,
                res |-> NewsEncoderForward(call.x, call.key_padding_mask, None)]
    /\ UNCHANGED <<hookVars, call>>

NextNews == NewsEncoderCall \/ NewsEncoderPerturbed \/ NewsEncoderUnmasked

SpecNews == InitIdle /\ [][NextNews]_vars

----------------------------------------------------------------------------
(* Calls of NRMS.forward, forward_news_encoder and forward_user_encoder    *)

ArgNames == {"clicked_ids", "clicked_attention_mask", "clicked_key_padding_mask",
             "clicked_softmax_padding_mask",
             "labeled_ids", "labeled_attention_mask", "labeled_key_padding_mask"}

\* the arguments of forward from a clicked and a labeled token group, those
\* named in absent left out (None)
Args(clicked, labeled, absent) ==
    LET full == [clicked_ids |-> clicked.input_ids,
                 clicked_attention_mask |-> clicked.attention_mask,
                 clicked_key_padding_mask |-> clicked.key_padding_mask,
                 clicked_softmax_padding_mask |-> clicked.softmax_padding_mask,
                 labeled_ids |-> labeled.input_ids,
                 labeled_attention_mask |-> labeled.attention_mask,
                 labeled_key_padding_mask |-> labeled.key_padding_mask]
    IN  [n \in ArgNames |-> IF n \in absent THEN None ELSE Some(full[n])]

\* forward with every required argument; the softmax-padding mask is optional
ForwardCall ==
    /\ call.op = "none"
    /\ \E U \in 1..MaxUsers, A \in 1..MaxTitles, K1 \in 1..MaxTitles, L \in 1..MaxLen :
       \E seed \in 0..(NumSeeds - 1), pad \in 0..A :
       \E absent \in {{}, {"clicked_softmax_padding_mask"}} :
          LET args == Args(Tokens(U, A, L, seed, pad), Tokens(U, K1, L, seed + 1, 0), absent)
          IN  call' = [op |-> "forward", args |-> args, res |-> forward(args)]
    /\ UNCHANGED <<hookVars, twin>>

\* forward with some required argument absent
ForwardCallIncomplete ==
    /\ call.op = "none"
    /\ \E U \in 1..MaxUsers, A \in 1..MaxTitles, L \in 1..MaxLen :
       \E absent \in SUBSET ArgNames :
          /\ absent \ {"clicked_softmax_padding_mask"} # {}
          /\ LET args == Args(Tokens(U, A, L, 0, 0), Tokens(U, A, L, 1, 0), absent)
             IN  call' = [op |-> "forward", args |-> args, res |-> forward(args)]
    /\ UNCHANGED <<hookVars, twin>>

ForwardNewsEncoderCall ==
    /\ call.op = "none"
    /\ \E U \in 1..MaxUsers, A \in 1..MaxTitles, L \in 1..MaxLen :
       \E seed \in 0..(NumSeeds - 1), pad \in 0..A, masked \in BOOLEAN :
          LET t == Tokens(U, A, L, seed, pad)
              spm == IF masked THEN Some(t.softmax_padding_mask) ELSE None
          IN  call' = [op |-> "forward_news_encoder",
                       input_ids |-> t.input_ids, attention_mask |-> t.attention_mask,
                       key_padding_mask |-> t.key_padding_mask,
                       softmax_padding_mask |-> spm,
                       res |-> forward_news_encoder(t.input_ids, t.attention_mask,
                                                    t.key_padding_mask, spm)]
    /\ UNCHANGED <<hookVars, twin>>

ForwardUserEncoderCall ==
    /\ call.op = "none"
    /\ \E U \in 1..MaxUsers, A \in 1..MaxTitles, L \in 1..MaxLen :
       \E seed \in 0..(NumSeeds - 1), pad \in 0..A, masked \in BOOLEAN :
          LET t == Tokens(U, A, L, seed, pad)
              spm == IF masked THEN Some(t.softmax_padding_mask) ELSE None
          IN  call' = [op |-> "forward_user_encoder",
                       input_ids |-> t.input_ids, attention_mask |-> t.attention_mask,
                       key_padding_mask |-> t.key_padding_mask,
                       softmax_padding_mask |-> spm,
                       news |-> forward_news_encoder(t.input_ids, t.attention_mask,
                                                     t.key_padding_mask, spm),
                       res |-> forward_user_encoder(t.input_ids, t.attention_mask,
                                                    t.key_padding_mask, spm)]
    /\ UNCHANGED <<hookVars, twin>>

\* a second forward_user_encoder call under the same masks, the tokens of
\* article a of user u replaced by other tokens; news is what
\* forward_news_encoder returns on the same arguments
ForwardUserEncoderReplaced ==
    /\ call.op = "forward_user_encoder"
    /\ twin.op = "none"
    /\ \E u \in 1..Len(call.input_ids), a \in 1..Len(call.input_ids[1]), d \in 1..3 :
          LET ids2 == [call.input_ids EXCEPT
                          ![u][a] = [l \in 1..Len(@) |-> (@[l] + d) % 4]]
          IN  twin' = [op |-> "forward_user_encoder", u |-> u, a |-> a,
                       input_ids |-> ids2, attention_mask |-> call.attention_mask,
                       key_padding_mask |-> call.key_padding_mask,
                       softmax_padding_mask |-> call.softmax_padding_mask,
                       news |-> forward_news_encoder(ids2, call.attention_mask,
                                                     call.key_padding_mask,
                                                     call.softmax_padding_mask),
                       res |-> forward_user_encoder(ids2, call.attention_mask,
                                                    call.key_padding_mask,
                                                    call.softmax_padding_mask)]
    /\ UNCHANGED <<hookVars, call>>

NextFwd ==
    \/ ForwardCall
    \/ ForwardCallIncomplete
    \/ ForwardNewsEncoderCall
    \/ ForwardUserEncoderCall
    \/ ForwardUserEncoderReplaced

SpecFwd == InitIdle /\ [][NextFwd]_vars

----------------------------------------------------------------------------
(* The Lightning hooks: training_step, validation_step, test_step and the  *)
(* three epoch-end hooks, called in any order by the training loop.        *)

\* a well-formed batch of 2 users, 2 clicked and 2 candidate articles
GoodBatch(seed) ==
    [clicked_tokens |-> Dict(Tokens(2, 2, 2, seed, 0)),
     labeled_tokens |-> Dict(Tokens(2, 2, 2, seed + 1, 0)),
     labels |-> <<<<0>>, <<0>>>>]

\* the dictionary d without the key k
Without(d, k) == [j \in DOMAIN d \ {k} |-> d[j]]

\* batches on which forward_and_compute_loss fails: a key missing from a
\* dictionary, a value that is None, a key-padding mask with too few
\* elements, labels not of shape (users, 1)
BadBatches ==
    <<[GoodBatch(0) EXCEPT !.clicked_tokens = Without(@, "key_padding_mask")],
      [GoodBatch(0) EXCEPT !.labeled_tokens.input_ids = None],
      [GoodBatch(0) EXCEPT !.labeled_tokens.key_padding_mask =
                               Some(Tokens(2, 2, 1, 0, 0).key_padding_mask)],
      [GoodBatch(0) EXCEPT !.labels = <<<<0, 0>>, <<0, 0>>>>]>>

\* the sample batches; a step is given a batch by its number in this list
BatchList == [n \in 1..NumSeeds |-> GoodBatch(n - 1)] \o BadBatches

Batches == 1..Len(BatchList)

\* forward_and_compute_loss on each batch (the parameters do not change
\* between the calls: the optimizer is not part of the model)
Outcome == [batch \in Batches |-> forward_and_compute_loss(BatchList[batch])]

RECURSIVE RunningMean(_)
\* a mutant of StackMean: a running average, each loss averaged with the
\* average so far
RunningMean(outputs) ==
    IF Len(outputs) = 1 THEN outputs[1]
    ELSE (RunningMean(SubSeq(outputs, 1, Len(outputs) - 1)) + outputs[Len(outputs)]) \div 2

\* torch.stack(outputs).mean()
StackMean(outputs) == SumSeq(outputs) \div Len(outputs)

\* the record of a completed hook call: the hook and the loss it computed
Event(op, loss) == [op |-> op, loss |-> loss]

\* the last hook call: the hook and the exception it raised ("ok" when none)
Called(op, err) == [op |-> op, err |-> err]

Init == InitIdle

\* a mutant of training_step: the failure of forward_and_compute_loss is
\* swallowed and a zero loss is logged and accumulated
training_step_Swallowing(batch, batch_idx) ==
    /\ Len(history) < MaxEvents
    /\ LET r == Outcome[batch]
           loss == IF r.err # "ok" THEN 0 ELSE r.loss
       IN  /\ logged' = <<<<"train_loss", loss>>>>
           /\ training_step_outputs' = Append(training_step_outputs, loss)
           /\ outcome' = Called("training_step", "ok")
           /\ history' = Append(history, Event("training_step", loss))
    /\ viz' = <<>>
    /\ UNCHANGED <<validating_step_outputs, testing_step_outputs, call, twin>>

training_step(batch, batch_idx) ==
    /\ Len(history) < MaxEvents
    /\ LET r == Outcome[batch]
       IN  IF r.err # "ok"
           THEN /\ outcome' = Called("training_step", r.err)
                /\ logged' = <<>>
                /\ UNCHANGED <<training_step_outputs, history>>
           ELSE /\ logged' = <<<<"train_loss", r.loss>>>>
                /\ training_step_outputs' = Append(training_step_outputs, r.loss)
                /\ outcome' = Called("training_step", "ok")
                /\ history' = Append(history, Event("training_step", r.loss))
    /\ viz' = <<>>
    /\ UNCHANGED <<validating_step_outputs, testing_step_outputs, call, twin>>

validation_step(batch, batch_idx) ==
    /\ Len(history) < MaxEvents
    /\ LET r == Outcome[batch]
       IN  IF r.err # "ok"
           THEN /\ outcome' = Called("validation_step", r.err)
                /\ logged' = <<>>
                /\ viz' = <<>>
                /\ UNCHANGED <<validating_step_outputs, history>>
           ELSE /\ logged' = <<<<"val_loss", r.loss>>>>
                /\ validating_step_outputs' = Append(validating_step_outputs, r.loss)
                /\ viz' = IF batch_idx % 3 = 0
                          THEN <<"attention_weights", "additive_softmax">>
                          ELSE <<>>
                /\ outcome' = Called("validation_step", "ok")
                /\ history' = Append(history, Event("validation_step", r.loss))
    /\ UNCHANGED <<training_step_outputs, testing_step_outputs, call, twin>>

test_step(batch, batch_idx) ==
    /\ Len(history) < MaxEvents
    /\ LET r == Outcome[batch]
       IN  IF r.err # "ok"
           THEN /\ outcome' = Called("test_step", r.err)
                /\ logged' = <<>>
                /\ UNCHANGED <<testing_step_outputs, history>>
           ELSE /\ logged' = <<<<"test_loss", r.loss>>>>
                /\ testing_step_outputs' = Append(testing_step_outputs, r.loss)
                /\ outcome' = Called("test_step", "ok")
                /\ history' = Append(history, Event("test_step", r.loss))
    /\ viz' = <<>>
    /\ UNCHANGED <<training_step_outputs, validating_step_outputs, call, twin>>

on_train_epoch_end ==
    /\ Len(history) < MaxEvents
    /\ IF training_step_outputs = <<>>
       THEN /\ outcome' = Called("on_train_epoch_end", "RuntimeError")
            /\ logged' = <<>>                        \* torch.stack of an empty list
            /\ UNCHANGED <<training_step_outputs, history>>
       ELSE /\ logged' = <<<<"avg_train_loss", StackMean(training_step_outputs)>>>>
            /\ training_step_outputs' = <<>>
            /\ outcome' = Called("on_train_epoch_end", "ok")
            /\ history' = Append(history, Event("on_train_epoch_end", StackMean(training_step_outputs)))
    /\ viz' = <<>>
    /\ UNCHANGED <<validating_step_outputs, testing_step_outputs, call, twin>>

\* a mutant of on_validation_epoch_end: it clears the three accumulators
on_validation_epoch_end_ClearingAll ==
    /\ Len(history) < MaxEvents
    /\ validating_step_outputs # <<>>
    /\ logged' = <<<<"avg_val_loss", StackMean(validating_step_outputs)>>>>
    /\ validating_step_outputs' = <<>>
    /\ training_step_outputs' = <<>>
    /\ testing_step_outputs' = <<>>
    /\ outcome' = Called("on_validation_epoch_end", "ok")
    /\ history' = Append(history, Event("on_validation_epoch_end",
                                        StackMean(validating_step_outputs)))
    /\ viz' = <<>>
    /\ UNCHANGED <<call, twin>>

on_validation_epoch_end ==
    /\ Len(history) < MaxEvents
    /\ IF validating_step_outputs = <<>>
       THEN /\ outcome' = Called("on_validation_epoch_end", "RuntimeError")
            /\ logged' = <<>>                        \* torch.stack of an empty list
            /\ UNCHANGED <<validating_step_outputs, history>>
       ELSE /\ logged' = <<<<"avg_val_loss", StackMean(validating_step_outputs)>>>>
            /\ validating_step_outputs' = <<>>
            /\ outcome' = Called("on_validation_epoch_end", "ok")
            /\ history' = Append(history, Event("on_validation_epoch_end", StackMean(validating_step_outputs)))
    /\ viz' = <<>>
    /\ UNCHANGED <<training_step_outputs, testing_step_outputs, call, twin>>

\* a mutant of on_test_epoch_end: on an empty list it logs an average of 0
\* and returns
on_test_epoch_end_LoggingZero ==
    /\ Len(history) < MaxEvents
    /\ LET avg_loss == IF testing_step_outputs = <<>> THEN 0
                       ELSE StackMean(testing_step_outputs)
       IN  /\ logged' = <<<<"avg_test_loss", avg_loss>>>>
           /\ testing_step_outputs' = <<>>
           /\ outcome' = Called("on_test_epoch_end", "ok")
           /\ history' = Append(history, Event("on_test_epoch_end", avg_loss))
    /\ viz' = <<>>
    /\ UNCHANGED <<training_step_outputs, validating_step_outputs, call, twin>>

on_test_epoch_end ==
    /\ Len(history) < MaxEvents
    /\ IF testing_step_outputs = <<>>
       THEN /\ outcome' = Called("on_test_epoch_end", "RuntimeError")
            /\ logged' = <<>>                        \* torch.stack of an empty list
            /\ UNCHANGED <<testing_step_outputs, history>>
       ELSE /\ logged' = <<<<"avg_test_loss", StackMean(testing_step_outputs)>>>>
            /\ testing_step_outputs' = <<>>
            /\ outcome' = Called("on_test_epoch_end", "ok")
            /\ history' = Append(history, Event("on_test_epoch_end", StackMean(testing_step_outputs)))
    /\ viz' = <<>>
    /\ UNCHANGED <<training_step_outputs, validating_step_outputs, call, twin>>

Next ==
    \/ \E batch \in Batches, batch_idx \in 0..MaxBatchIdx : training_step(batch, batch_idx)
    \/ \E batch \in Batches, batch_idx \in 0..MaxBatchIdx : validation_step(batch, batch_idx)
    \/ \E batch \in Batches, batch_idx \in 0..MaxBatchIdx : test_step(batch, batch_idx)
    \/ on_train_epoch_end
    \/ on_validation_epoch_end
    \/ on_test_epoch_end

Spec == Init /\ [][Next]_vars

----------------------------------------------------------------------------
(* Claims about NewsEncoder.forward (under SpecNews)                       *)

\* the position the second call perturbs is marked as padding by the
\* key-padding mask of both calls, and both calls returned
PerturbedAtPadding ==
    /\ twin.op = "NewsEncoder.forward"
    /\ twin.kind = "perturbed"
    /\ call.res.err = "ok"
    /\ twin.res.err = "ok"
    /\ Val(call.key_padding_mask)[1][twin.p]

\* C3: two NewsEncoder.forward calls that differ only in the input vector at
\* a position the key-padding mask marks as padding return the same news
\* vector.
C3_PaddedContentIgnored ==
    PerturbedAtPadding => twin.res.out = call.res.out

\* the key-padding mask of the first call is None or not of the shape
\* (batch, length) of its input
BadKeyPaddingMask ==
    /\ call.op = "NewsEncoder.forward"
    /\ \/ IsNone(call.key_padding_mask)
       \/ Shape2(Val(call.key_padding_mask)) # <<Len(call.x), Len(call.x[1])>>

\* the call failed before any layer ran and returned nothing
FailedAtOnce(res) ==
    /\ res.err # "ok"
    /\ res.ran = <<>>
    /\ res.out = <<>> /\ res.context_weights = <<>> /\ res.additive_weights = <<>>

\* C6 as stated: NewsEncoder.forward fails with an assertion failure, before
\* self-attention and without output, whenever the key-padding mask is not
\* of shape (batch, length), also when it is None.
C6_Original ==
    BadKeyPaddingMask => (call.res.err = "AssertionError" /\ FailedAtOnce(call.res))

\* C6 as amended: NewsEncoder.forward fails before self-attention and without
\* output whenever the key-padding mask is not of shape (batch, length): with
\* an assertion failure when the mask has another shape, with an
\* AttributeError when it is None; with a mask of that shape it returns.
C6_BadMaskFailsAtOnce ==
    call.op = "NewsEncoder.forward" =>
        /\ BadKeyPaddingMask
           => /\ FailedAtOnce(call.res)
              /\ call.res.err = IF IsNone(call.key_padding_mask)
                                THEN "AttributeError" ELSE "AssertionError"
        /\ ~BadKeyPaddingMask
           => (call.res.err = "ok" /\ call.res.ran[1] = "multi_head_attention")

\* a mask with the right length and one row too many was refused
C6_Witness ==
    /\ call.op = "NewsEncoder.forward"
    /\ Len(call.x[1]) = 3
    /\ ~IsNone(call.key_padding_mask)
    /\ Shape2(Val(call.key_padding_mask)) = <<2, 3>>
    /\ call.res.err = "AssertionError"
    /\ call.res.ran = <<>>

\* C9: with a softmax-padding mask the returned additive weights are the
\* softmax weights (those of the same call without the mask) times the mask,
\* not renormalised, and the news vector is the sum of the transformed
\* context weighted by them; without a mask they are the softmax output.
C9_MaskedWeightsNotRenormalised ==
    /\ (call.op = "NewsEncoder.forward" /\ call.res.err = "ok")
       => With(MultiheadAttention(call.x, call.key_padding_mask).context, LAMBDA context :
            /\ IsNone(call.softmax_padding_mask)
               => call.res.additive_weights = AdditiveAttention(context, encoder_dim)
            /\ call.res.out = WeightedSum(call.res.additive_weights,
                                          TransformedContext(context, encoder_dim)))
    /\ (twin.op = "NewsEncoder.forward" /\ twin.kind = "unmasked" /\ call.res.err = "ok")
       => /\ twin.res.err = "ok"
          /\ \A l \in 1..Len(call.x[1]) :
                call.res.additive_weights[1][l] =
                    twin.res.additive_weights[1][l] * Val(call.softmax_padding_mask)[1][l]
          /\ SumSeq(call.res.additive_weights[1]) =
                 SumSeq([l \in 1..Len(call.x[1]) |->
                     IF Val(call.softmax_padding_mask)[1][l] = 1
                     THEN twin.res.additive_weights[1][l] ELSE 0])

\* a mask that keeps two of three positions: the weights kept sum to less
\* than those of the call without the mask
C9_Witness ==
    /\ twin.op = "NewsEncoder.forward" /\ twin.kind = "unmasked"
    /\ call.res.err = "ok"
    /\ Val(call.softmax_padding_mask) = <<<<1, 0, 1>>>>
    /\ call.res.additive_weights[1][2] = 0
    /\ twin.res.additive_weights[1][2] > 0
    /\ SumSeq(call.res.additive_weights[1]) < SumSeq(twin.res.additive_weights[1])
    /\ call.res.out # twin.res.out

----------------------------------------------------------------------------
(* Claims about NRMS.forward and the two encoder passes (under SpecFwd)    *)

\* t is a rectangular tensor of the shape s
HasShape2(t, s) == Len(t) = s[1] /\ \A i \in 1..Len(t) : Len(t[i]) = s[2]

HasShape3(t, s) ==
    Len(t) = s[1] /\ \A i \in 1..Len(t) : HasShape2(t[i], <<s[2], s[3]>>)

Absent(args) == {n \in ArgNames : IsNone(args[n])}

\* C5: forward with a required input absent fails with an error naming an
\* absent field, before any encoder is invoked and without scores; an absent
\* clicked_softmax_padding_mask alone does not make it fail.
C5_MissingInputRejected ==
    call.op = "forward" =>
        /\ Absent(call.args) \ {"clicked_softmax_padding_mask"} # {}
           => /\ call.res.err = "ValueError"
              /\ \E n \in Absent(call.args) \ {"clicked_softmax_padding_mask"} :
                    call.res.msg = n \o " must be provided."
              /\ call.res.ran = <<>>
              /\ "scores" \notin DOMAIN call.res
        /\ Absent(call.args) \subseteq {"clicked_softmax_padding_mask"}
           => (call.res.err = "ok" /\ "scores" \in DOMAIN call.res)

\* clicked_ids is given; of the three absent arguments the first one checked
\* is named
C5_Witness ==
    /\ call.op = "forward"
    /\ Absent(call.args) = {"clicked_key_padding_mask", "clicked_softmax_padding_mask",
                            "labeled_attention_mask"}
    /\ call.res.err = "ValueError"
    /\ call.res.msg = "clicked_key_padding_mask must be provided."
    /\ call.res.ran = <<>>

\* the softmax-padding mask of the first forward_user_encoder call is 0 on
\* every position of the article the second call replaced
ReplacedArticlePadded ==
    /\ twin.op = "forward_user_encoder"
    /\ ~IsNone(call.softmax_padding_mask)
    /\ \A l \in 1..Len(call.input_ids[twin.u][twin.a]) :
          Val(call.softmax_padding_mask)[twin.u][twin.a][l] = 0

ZeroVector(v) == \A i \in 1..Len(v) : v[i] = 0

\* C4: when the softmax-padding mask zeroes an article of the clicked
\* history, its news vector is the zero vector and the user vector is the
\* one obtained with any other content in that article under the same masks.
C4_PaddedArticleContributesZero ==
    ReplacedArticlePadded
    => /\ call.res.err = "ok" /\ twin.res.err = "ok"
       /\ ZeroVector(call.news.news_vectors[twin.u][twin.a])
       /\ ZeroVector(twin.news.news_vectors[twin.u][twin.a])
       /\ twin.res.user_vector = call.res.user_vector

\* the second of two articles is padded and replaced; the first one has a
\* news vector that is not zero
C4_Witness ==
    /\ ReplacedArticlePadded
    /\ twin.a = 2
    /\ twin.input_ids[twin.u][2] # call.input_ids[twin.u][2]
    /\ ~ZeroVector(call.news.news_vectors[twin.u][1])
    /\ twin.res.user_vector = call.res.user_vector

\* C7: on ids of shape (U, A, L) with masks of that shape forward_news_encoder
\* returns news vectors of shape (U, A, encoder_dim), and forward_user_encoder
\* passes its shape assertion and returns a user vector of shape
\* (U, encoder_dim).
C7_EncoderShapes ==
    /\ call.op = "forward_news_encoder"
       => /\ call.res.err = "ok"
          /\ HasShape3(call.res.news_vectors,
                       <<Len(call.input_ids), Len(call.input_ids[1]), encoder_dim>>)
    /\ \A c \in {call, twin} :
          c.op = "forward_user_encoder"
          => /\ c.res.err = "ok"
             /\ HasShape2(c.res.user_vector, <<Len(c.input_ids), encoder_dim>>)
             /\ HasShape3(c.news.news_vectors,
                          <<Len(c.input_ids), Len(c.input_ids[1]), encoder_dim>>)

\* two users with one article of three tokens each: one vector per user
C7_Witness ==
    /\ call.op = "forward_user_encoder"
    /\ Shape3(call.input_ids) = <<2, 1, 3>>
    /\ Shape3(call.news.news_vectors) = <<2, 1, 2>>
    /\ Shape2(call.res.user_vector) = <<2, 2>>

\* C8: forward returns scores of shape (users, K + 1), and score[u][k] is
\* the inner product of the news vector of candidate k of user u with the
\* user vector of user u.
C8_ScoresAreOwnDotProducts ==
    (call.op = "forward" /\ call.res.err = "ok")
    => With(forward_news_encoder(Val(call.args.labeled_ids),
                                 Val(call.args.labeled_attention_mask),
                                 Val(call.args.labeled_key_padding_mask), None).news_vectors,
            LAMBDA news :
       With(forward_user_encoder(Val(call.args.clicked_ids),
                                 Val(call.args.clicked_attention_mask),
                                 Val(call.args.clicked_key_padding_mask),
                                 call.args.clicked_softmax_padding_mask).user_vector,
            LAMBDA user :
            /\ HasShape2(call.res.scores, <<Len(Val(call.args.labeled_ids)),
                                            Len(Val(call.args.labeled_ids)[1])>>)
            /\ \A u \in 1..Len(call.res.scores) : \A k \in 1..Len(call.res.scores[u]) :
                  call.res.scores[u][k] =
                      SumSeq([i \in 1..encoder_dim |-> (news[u][k][i] * user[u][i]) \div Scale])))

\* two users whose scores differ: the first user's first candidate scored
\* against the second user's vector would get another score
C8_Witness ==
    /\ call.op = "forward" /\ call.res.err = "ok"
    /\ Shape2(call.res.scores) = <<2, 2>>
    /\ call.res.scores[1] # call.res.scores[2]
    /\ With(forward_news_encoder(Val(call.args.labeled_ids),
                                 Val(call.args.labeled_attention_mask),
                                 Val(call.args.labeled_key_padding_mask), None).news_vectors,
            LAMBDA news :
       With(forward_user_encoder(Val(call.args.clicked_ids),
                                 Val(call.args.clicked_attention_mask),
                                 Val(call.args.clicked_key_padding_mask),
                                 call.args.clicked_softmax_padding_mask).user_vector,
            LAMBDA user :
            SumSeq([i \in 1..encoder_dim |-> (news[1][1][i] * user[2][i]) \div Scale])
                # call.res.scores[1][1]))

----------------------------------------------------------------------------
(* Claims about the hooks (under Spec)                                     *)

Last(h) == h[Len(h)]

Front(h) == SubSeq(h, 1, Len(h) - 1)

RECURSIVE LossesSince(_, _, _)
\* the losses of the completed calls of the hook step in h since the last
\* completed call of the hook end, oldest first
LossesSince(h, step, end) ==
    IF h = <<>> \/ Last(h).op = end THEN <<>>
    ELSE IF Last(h).op = step
    THEN Append(LossesSince(Front(h), step, end), Last(h).loss)
    ELSE LossesSince(Front(h), step, end)

RECURSIVE Total(_)
Total(losses) == IF losses = <<>> THEN 0 ELSE losses[1] + Total(Tail(losses))

\* the arithmetic mean, at the precision of the model
Mean(losses) == Total(losses) \div Len(losses)

Kinds ==
    {[step |-> "training_step", end |-> "on_train_epoch_end", metric |-> "avg_train_loss"],
     [step |-> "validation_step", end |-> "on_validation_epoch_end",
      metric |-> "avg_val_loss"],
     [step |-> "test_step", end |-> "on_test_epoch_end", metric |-> "avg_test_loss"]}

Outputs(step) ==
    CASE step = "training_step" -> training_step_outputs
      [] step = "validation_step" -> validating_step_outputs
      [] step = "test_step" -> testing_step_outputs

\* C1: an epoch-end hook called after at least one completed step of its
\* kind since its last call logs, under its metric, the arithmetic mean of
\* exactly the losses those steps returned, and leaves its accumulator empty.
C1_EpochEndLogsMeanAndResets ==
    \A k \in Kinds :
        /\ (outcome.op = k.end /\ outcome.err = "ok")
           => /\ Last(history).op = k.end
              /\ LossesSince(Front(history), k.step, k.end) # <<>>
              /\ logged = <<<<k.metric,
                              Mean(LossesSince(Front(history), k.step, k.end))>>>>
              /\ Len(Outputs(k.step)) = 0
        /\ (outcome.op = k.end /\ outcome.err # "ok")
           => LossesSince(history, k.step, k.end) = <<>>

\* on_train_epoch_end has just averaged three losses, not all the same
C1_Witness ==
    /\ Len(history) = 4
    /\ \A i \in 1..3 : history[i].op = "training_step"
    /\ history[1].loss # history[2].loss
    /\ outcome = [op |-> "on_train_epoch_end", err |-> "ok"]
    /\ logged = <<<<"avg_train_loss",
                    (history[1].loss + history[2].loss + history[3].loss) \div 3>>>>
    /\ training_step_outputs = <<>>

\* C2: under every interleaving of the six hooks each accumulator holds
\* exactly the losses of the completed steps of its own kind since its own
\* epoch-end hook last ran, in call order.
C2_AccumulatorsIndependent ==
    \A k \in Kinds : Outputs(k.step) = LossesSince(history, k.step, k.end)

\* steps of the three kinds, then on_train_epoch_end: the training list is
\* cleared, the validation and test lists keep their losses
C2_Witness ==
    /\ Len(history) = 4
    /\ history[1].op = "training_step"
    /\ history[2].op = "validation_step"
    /\ history[3].op = "test_step"
    /\ history[4].op = "on_train_epoch_end"
    /\ training_step_outputs = <<>>
    /\ validating_step_outputs = <<history[2].loss>>
    /\ testing_step_outputs = <<history[3].loss>>

\* C10: a step whose forward_and_compute_loss fails raises that error, logs
\* nothing and leaves the three accumulators unchanged.
C10_FailedStepAppendsNothing ==
    [][\A batch \in Batches, batch_idx \in 0..MaxBatchIdx :
          (/\ Outcome[batch].err # "ok"
           /\ \/ training_step(batch, batch_idx)
              \/ validation_step(batch, batch_idx)
              \/ test_step(batch, batch_idx))
          => /\ outcome'.err = Outcome[batch].err
             /\ outcome'.err \in {"KeyError", "ValueError", "RuntimeError",
                                  "AssertionError"}
             /\ logged' = <<>>
             /\ UNCHANGED <<training_step_outputs, validating_step_outputs,
                            testing_step_outputs>>]_vars

\* a validation step has failed on its labels' shape after a training step
\* completed; the training loss is still the only one accumulated
C10_Witness ==
    /\ Len(history) = 1
    /\ history[1].op = "training_step"
    /\ outcome = [op |-> "validation_step", err |-> "AssertionError"]
    /\ training_step_outputs = <<history[1].loss>>
    /\ validating_step_outputs = <<>>
    /\ testing_step_outputs = <<>>

\* C11: an epoch-end hook called when its accumulator is empty raises an
\* error and logs no average; its accumulator stays empty and the other two
\* accumulators are unchanged.
C11_EpochEndOnEmptyFails ==
    [][/\ (on_train_epoch_end /\ training_step_outputs = <<>>)
          => /\ outcome' = Called("on_train_epoch_end", "RuntimeError")
             /\ logged' = <<>>
             /\ training_step_outputs' = <<>>
             /\ UNCHANGED <<validating_step_outputs, testing_step_outputs, history>>
       /\ (on_validation_epoch_end /\ validating_step_outputs = <<>>)
          => /\ outcome' = Called("on_validation_epoch_end", "RuntimeError")
             /\ logged' = <<>>
             /\ validating_step_outputs' = <<>>
             /\ UNCHANGED <<training_step_outputs, testing_step_outputs, history>>
       /\ (on_test_epoch_end /\ testing_step_outputs = <<>>)
          => /\ outcome' = Called("on_test_epoch_end", "RuntimeError")
             /\ logged' = <<>>
             /\ testing_step_outputs' = <<>>
             /\ UNCHANGED <<training_step_outputs, validating_step_outputs, history>>]_vars

\* on_test_epoch_end was called twice in a row: the first call logged the
\* average of one test loss, the second one failed; the training loss
\* accumulated before is still there
C11_Witness ==
    /\ Len(history) = 3
    /\ history[1].op = "training_step"
    /\ history[2].op = "test_step"
    /\ history[3].op = "on_test_epoch_end"
    /\ outcome = Called("on_test_epoch_end", "RuntimeError")
    /\ logged = <<>>
    /\ testing_step_outputs = <<>>
    /\ training_step_outputs = <<history[1].loss>>

=============================================================================
